---- MODULE Spec2Model ----
(***************************************************************************)
(* Supervisor conversation state machine of the resume agent:              *)
(*   backend/app/agents/supervisor_agent.py   (graph nodes and routing)    *)
(*   backend/app/api/supervisor.py            (send_message and friends)   *)
(*   backend/app/services/session_manager.py  (SessionManager)             *)
(* One session id is modelled.  A turn is a walk through the graph, one    *)
(* step per node; collaborator outcomes are chosen nondeterministically.   *)
(***************************************************************************)
EXTENDS Integers, Sequences, FiniteSets, TLC

VARIABLES
    session,      \* SessionManager._sessions[sid], or NoSession
    state,        \* the graph state of the running turn, or NoState
    pc,           \* "idle", or the graph node about to run, or "END"
    ran,          \* nodes executed so far in the running turn
    calls,        \* collaborator calls attempted in the running turn
    outcomes,     \* <<call, value>>: what each attempted call came back with
    tailor_out,   \* transcripts passed to and returned by the Tailor this turn
    null_keys,    \* keys the most recent update_session call carried as None
    api_response, \* what the most recent API call returned
    direct_calls, \* update_session calls made outside send_message
    checkpoint,   \* `messages` channel the checkpointer holds for the thread
    idle,         \* minutes since session["last_active"] (0 without a session)
    peer,         \* another session of the same store: its idle minutes
    before,       \* the stored session as it was when the running turn began,
                  \* but for user_input, which every turn replaces
    inbox,        \* send_message requests the server holds, handler not begun
    answered,     \* send_message requests answered for the stored session
    mem           \* the MemorySessionStorage instance and the threads calling it

vars == <<session, state, pc, ran, calls, outcomes, tailor_out, null_keys,
          api_response, direct_calls, checkpoint, idle, peer, before, inbox,
          answered, mem>>

----------------------------------------------------------------------------
(* Bounds *)

MaxTurns == 3
MaxStoreTurns == 2
MaxDirectCalls == 1
MaxLogTurns == 2
MaxTtlTurns == 2
MaxIdle == 61
MaxRaceTurns == 2
MaxInflight == 2
MaxLiveTurns == 2
MaxCreates == 2
MaxMemMsgs == 2

----------------------------------------------------------------------------
(* Values *)

None == "None"
NoSession == [absent |-> TRUE]
NoState == [not_running |-> TRUE]
NoTranscript == [returned |-> FALSE]
Fail == "Fail"
Raised == [raised |-> TRUE]

\* UserIntent.intent
Intents ==
    {"upload_cv", "provide_job_url", "provide_job_text", "research_company",
     "start_tailoring", "answer_clarification", "general_question",
     "greeting", "help"}

\* minutes that pass between two looks at the clock
TickMinutes == {30, 31}

\* user messages, one representative per class the code distinguishes
Inputs ==
    {"cv.pdf", "https://jobs.example/42", "yes", "start over", "what now?"}

\* the user messages sent while update_session is also called directly
StoreInputs == {"cv.pdf", "what now?", "start over"}

\* the user messages sent while the conversation log is followed
LogInputs == {"cv.pdf", "what now?"}
RaceInputs == {"cv.pdf", "what now?"}
TtlInputs == {"cv.pdf", "what now?"}

\* Path(cv_path).exists()
FileExists(u) == u \in {"cv.pdf"}

\* url.startswith("http") or some word of the input starts with "http"
HasUrl(u) == u \in {"https://jobs.example/42"}

\* any(word in user_input for word in ["yes","sure","okay","research","company"])
WantsCompanyResearch(u) == u \in {"yes"}

\* any(trigger in user_input.lower() for trigger in return_triggers)
ReturnTrigger(u) == u \in {"start over"}

\* results the collaborators can return
CvRecords == {"cv1"}
MergedCvRecords == {"cv1m"}
JobRecords == {"job1"}
CompanyRecords == {"co1"}
AmbiguityReplies == {"No questions", "q1"}
WriterReplies == {"plan", "PDF generated successfully"}

\* "no questions" not in questions.lower()
NeedsClarification(q) == q \notin {"No questions"}

\* any(keyword in writer_response.lower() for keyword in done_keywords)
DoneKeyword(r) == r \in {"PDF generated successfully"}

\* format_data: None, "" and blank text give "", anything else its text
format_data(data) == IF data \in {None, "", " "} THEN "" ELSE data

----------------------------------------------------------------------------
(* SupervisorState: the channels of the graph.  A key a node returns that  *)
(* is not a channel is not part of the graph state.                        *)

StateKeys ==
    {"user_input", "supervisor_response", "current_agent", "next_action",
     "intent", "cv_data", "cv_file_path", "job_data", "company_data",
     "pending_questions", "clarifications", "needs_clarification",
     "session_stage", "conversation_count", "ready_for_writer"}

\* the fields declared `str | None`
NullableKeys ==
    {"cv_data", "cv_file_path", "job_data", "company_data",
     "pending_questions", "clarifications"}

\* the record a node returns is written channel by channel; `messages` is
\* declared Annotated[list, add], so what is written is appended to it
ApplyUpdate(st, u) ==
    [k \in DOMAIN st |->
        IF k \notin DOMAIN u THEN st[k]
        ELSE IF k = "messages" THEN st[k] \o u[k]
        ELSE u[k]]

\* invoke(session, config): the thread's checkpoint is loaded and the input
\* is written to the channels, `messages` through its reducer
graph_input(s, saved) ==
    [k \in (StateKeys \cup {"messages"}) \cap DOMAIN s |->
        IF k = "messages" THEN saved \o s[k] ELSE s[k]]

\* state.get("writer_messages", [])
writer_messages_of(s) ==
    IF "writer_messages" \in DOMAIN s THEN s["writer_messages"] ELSE <<>>

----------------------------------------------------------------------------
(* SessionManager *)

\* create_session opening the session in the CV stage
create_session_AtCollectingCv ==
    [messages |-> <<>>,
     conversation_count |-> 0,
     user_input |-> "",
     supervisor_response |-> "",
     current_agent |-> "supervisor",
     session_stage |-> "collecting_cv",
     next_action |-> "wait_for_input",
     intent |-> "",
     cv_data |-> None,
     cv_file_path |-> None,
     job_data |-> None,
     company_data |-> None,
     pending_questions |-> None,
     clarifications |-> None,
     needs_clarification |-> FALSE,
     ready_for_writer |-> FALSE]

create_session ==
    [messages |-> <<>>,
     conversation_count |-> 0,
     user_input |-> "",
     supervisor_response |-> "",
     current_agent |-> "supervisor",
     session_stage |-> "init",
     next_action |-> "wait_for_input",
     intent |-> "",
     cv_data |-> None,
     cv_file_path |-> None,
     job_data |-> None,
     company_data |-> None,
     pending_questions |-> None,
     clarifications |-> None,
     needs_clarification |-> FALSE,
     ready_for_writer |-> FALSE]

\* SessionManager(ttl_minutes=60)
TTL == 60

\* datetime.now() - session["last_active"] > self._ttl
Expired_AtTtl(minutes) == minutes >= TTL

Expired(minutes) == minutes > TTL

\* get_session_info: what GET /session/{id}/state reports (the timestamps
\* created_at and last_active are left out)
get_session_info(s) ==
    [session_stage |-> s.session_stage,
     current_agent |-> s.current_agent,
     has_cv_data |-> s.cv_data # None,
     has_job_data |-> s.job_data # None,
     has_company_data |-> s.company_data # None,
     needs_clarification |-> s.needs_clarification,
     ready_for_writer |-> s.ready_for_writer,
     message_count |-> IF "messages" \in DOMAIN s THEN Len(s.messages) ELSE 0]

\* the same record without its conversation log.  No node reads `messages`
\* (they only append to it), so a session followed without its log takes
\* the same turns; the log is followed in SpecLog.
create_session_no_log ==
    [k \in DOMAIN create_session \ {"messages"} |-> create_session[k]]

DataKeys == {"cv_data", "job_data", "company_data"}

\* the keys an update carries with the value None
NullsOf(updates) == {k \in DOMAIN updates \cap NullableKeys : updates[k] = None}

\* update_session without the guard on the data fields
update_session_Overwrite(s, updates) ==
    [k \in (DOMAIN s) \cup (DOMAIN updates \ {"created_at", "last_active"}) |->
        IF k \notin DOMAIN updates THEN s[k]
        ELSE IF k = "messages" /\ k \in DOMAIN s THEN s[k] \o updates[k]
        ELSE updates[k]]

\* update_session guarding cv_data only
update_session_GuardsCvOnly(s, updates) ==
    [k \in (DOMAIN s) \cup (DOMAIN updates \ {"created_at", "last_active"}) |->
        IF k \notin DOMAIN updates THEN s[k]
        ELSE IF k = "messages" /\ k \in DOMAIN s THEN s[k] \o updates[k]
        ELSE IF k = "cv_data" /\ updates[k] = None /\ k \in DOMAIN s THEN s[k]
        ELSE updates[k]]

\* update_session keeping every nullable field that is already stored
update_session_GuardsNullables(s, updates) ==
    [k \in (DOMAIN s) \cup (DOMAIN updates \ {"created_at", "last_active"}) |->
        IF k \notin DOMAIN updates THEN s[k]
        ELSE IF k = "messages" /\ k \in DOMAIN s THEN s[k] \o updates[k]
        ELSE IF k \in NullableKeys /\ updates[k] = None /\ k \in DOMAIN s
        THEN s[k]
        ELSE updates[k]]

\* update_session replacing the stored log by the list it is given
update_session_ReplacesLog(s, updates) ==
    [k \in (DOMAIN s) \cup (DOMAIN updates \ {"created_at", "last_active"}) |->
        IF k \notin DOMAIN updates THEN s[k]
        ELSE IF k \in DataKeys /\ updates[k] = None /\ k \in DOMAIN s THEN s[k]
        ELSE updates[k]]

update_session(s, updates) ==
    [k \in (DOMAIN s) \cup (DOMAIN updates \ {"created_at", "last_active"}) |->
        IF k \notin DOMAIN updates THEN s[k]
        ELSE IF k = "messages" /\ k \in DOMAIN s THEN s[k] \o updates[k]
        ELSE IF k \in DataKeys /\ updates[k] = None /\ k \in DOMAIN s THEN s[k]
        ELSE updates[k]]

----------------------------------------------------------------------------
(* Graph nodes.  Each operator gives the record the node returns, from the *)
(* graph state and the outcome of the collaborator calls it makes (Fail =  *)
(* the call raised).  Responses are named, not spelled out.                *)

has_cv(st) == st.cv_data # None
has_job(st) == st.job_data # None

\* truthiness of a `str | None` value
Truthy(v) == v \notin {None, ""}

\* invoke_cv_agent keeping the extracted record when the ambiguity check raised
invoke_cv_agent_KeepsExtracted(st, extracted, questions) ==
    IF ~FileExists(st.user_input)
    THEN [supervisor_response |-> "cv_file_not_found",
          next_action |-> "wait_for_input"]
    ELSE IF extracted = Fail
    THEN [supervisor_response |-> "cv_error",
          next_action |-> "wait_for_input"]
    ELSE IF questions = Fail
    THEN [cv_data |-> extracted,
          supervisor_response |-> "cv_error",
          next_action |-> "wait_for_input"]
    ELSE IF NeedsClarification(questions)
    THEN [cv_data |-> extracted,
          cv_file_path |-> st.user_input,
          pending_questions |-> questions,
          needs_clarification |-> TRUE,
          supervisor_response |-> "cv_questions",
          next_action |-> "wait_for_clarification",
          session_stage |-> "collecting_cv"]
    ELSE [cv_data |-> extracted,
          cv_file_path |-> st.user_input,
          needs_clarification |-> FALSE,
          supervisor_response |-> "cv_summary",
          next_action |-> "wait_for_job",
          session_stage |-> "collecting_job"]

\* invoke_cv_agent moving on to the job although questions are open
invoke_cv_agent_SkipsClarification(st, extracted, questions) ==
    IF ~FileExists(st.user_input)
    THEN [supervisor_response |-> "cv_file_not_found",
          next_action |-> "wait_for_input"]
    ELSE IF extracted = Fail \/ questions = Fail
    THEN [supervisor_response |-> "cv_error",
          next_action |-> "wait_for_input"]
    ELSE IF NeedsClarification(questions)
    THEN [cv_data |-> extracted,
          cv_file_path |-> st.user_input,
          pending_questions |-> questions,
          needs_clarification |-> TRUE,
          supervisor_response |-> "cv_questions",
          next_action |-> "wait_for_clarification",
          session_stage |-> "collecting_job"]
    ELSE [cv_data |-> extracted,
          cv_file_path |-> st.user_input,
          needs_clarification |-> FALSE,
          supervisor_response |-> "cv_summary",
          next_action |-> "wait_for_job",
          session_stage |-> "collecting_job"]

invoke_cv_agent(st, extracted, questions) ==
    IF ~FileExists(st.user_input)
    THEN [supervisor_response |-> "cv_file_not_found",
          next_action |-> "wait_for_input"]
    ELSE IF extracted = Fail \/ questions = Fail
    THEN [supervisor_response |-> "cv_error",
          next_action |-> "wait_for_input"]
    ELSE IF NeedsClarification(questions)
    THEN [cv_data |-> extracted,
          cv_file_path |-> st.user_input,
          pending_questions |-> questions,
          needs_clarification |-> TRUE,
          supervisor_response |-> "cv_questions",
          next_action |-> "wait_for_clarification",
          session_stage |-> "collecting_cv"]
    ELSE [cv_data |-> extracted,
          cv_file_path |-> st.user_input,
          needs_clarification |-> FALSE,
          supervisor_response |-> "cv_summary",
          next_action |-> "wait_for_job",
          session_stage |-> "collecting_job"]

\* handle_cv_clarification dropping the open questions when the merge raised
handle_cv_clarification_GivesUp(st, merged) ==
    IF merged = Fail
    THEN [pending_questions |-> None,
          needs_clarification |-> FALSE,
          supervisor_response |-> "clarification_error",
          next_action |-> "wait_for_clarification"]
    ELSE [cv_data |-> merged,
          pending_questions |-> None,
          needs_clarification |-> FALSE,
          supervisor_response |-> "cv_updated",
          next_action |-> "wait_for_job",
          session_stage |-> "collecting_job"]

handle_cv_clarification(st, merged) ==
    IF merged = Fail
    THEN [supervisor_response |-> "clarification_error",
          next_action |-> "wait_for_clarification"]
    ELSE [cv_data |-> merged,
          pending_questions |-> None,
          needs_clarification |-> FALSE,
          supervisor_response |-> "cv_updated",
          next_action |-> "wait_for_job",
          session_stage |-> "collecting_job"]

invoke_job_agent(st, job) ==
    IF st.intent = "provide_job_url" /\ ~HasUrl(st.user_input)
    THEN [supervisor_response |-> "invalid_url",
          next_action |-> "wait_for_job"]
    ELSE IF job = Fail
    THEN [supervisor_response |-> "job_error",
          next_action |-> "wait_for_job"]
    ELSE [job_data |-> job,
          supervisor_response |-> "job_summary_offer_research",
          next_action |-> "ask_company_research",
          session_stage |-> "collecting_job"]

handle_company_research_decision(st) ==
    IF WantsCompanyResearch(st.user_input)
    THEN [supervisor_response |-> "ask_company_name",
          next_action |-> "wait_for_company_name"]
    ELSE [supervisor_response |-> "handing_over",
          next_action |-> "handoff_to_writer",
          ready_for_writer |-> TRUE,
          session_stage |-> "writer_session"]

invoke_company_research(st, company) ==
    IF company = Fail
    THEN [supervisor_response |-> "company_error",
          next_action |-> "ask_company_research"]
    ELSE [company_data |-> company,
          supervisor_response |-> "company_summary_handing_over",
          next_action |-> "handoff_to_writer",
          ready_for_writer |-> TRUE,
          session_stage |-> "writer_session"]

\* the system message built from the held records
system_context(st) ==
    [role |-> "system",
     content |-> <<"context", format_data(st.cv_data),
                   format_data(st.job_data), format_data(st.company_data)>>]

\* the transcript handoff_to_writer starts the Tailor with
handoff_transcript_in(st) ==
    <<system_context(st),
      [role |-> "user", content |-> <<"initial_message">>]>>

\* handoff_to_writer giving the turn to the writer although the Tailor raised
handoff_to_writer_TakesOverOnError(st, reply) ==
    IF format_data(st.cv_data) = "" /\ format_data(st.job_data) = ""
    THEN [supervisor_response |-> "need_cv_and_job",
          next_action |-> "wait_for_input"]
    ELSE IF reply = Fail
    THEN [current_agent |-> "writer",
          supervisor_response |-> "handoff_error",
          next_action |-> "error_fallback"]
    ELSE [current_agent |-> "writer",
          supervisor_response |-> reply,
          next_action |-> "writer_active",
          writer_messages |->
              Append(handoff_transcript_in(st),
                     [role |-> "assistant", content |-> <<reply>>])]

handoff_to_writer(st, reply) ==
    IF format_data(st.cv_data) = "" /\ format_data(st.job_data) = ""
    THEN [supervisor_response |-> "need_cv_and_job",
          next_action |-> "wait_for_input"]
    ELSE IF reply = Fail
    THEN [supervisor_response |-> "handoff_error",
          next_action |-> "error_fallback"]
    ELSE [current_agent |-> "writer",
          supervisor_response |-> reply,
          next_action |-> "writer_active",
          writer_messages |->
              Append(handoff_transcript_in(st),
                     [role |-> "assistant", content |-> <<reply>>])]

\* msg.get("role") == "system" and "CV Data (ResumeInfo JSON)" in content
has_system_context(msgs) ==
    \E i \in 1..Len(msgs) :
        /\ msgs[i].role = "system"
        /\ msgs[i].content[1] = "context"
        /\ msgs[i].content[2] # ""

\* the repair step of continue_writer_session is taken
repairs_context(st) ==
    /\ ~has_system_context(writer_messages_of(st))
    /\ (Truthy(st.cv_data) \/ Truthy(st.job_data))

\* the repair step raises: system_context is used without being bound
context_unbound(st) ==
    /\ repairs_context(st)
    /\ format_data(st.cv_data) = ""
    /\ format_data(st.job_data) = ""

\* the transcript continue_writer_session passes to the Tailor
\* continue_writer_session passing the stored transcript on without repair
continue_transcript_in_NoRepair(st) ==
    Append(writer_messages_of(st),
           [role |-> "user", content |-> <<st.user_input>>])

continue_transcript_in(st) ==
    LET stored == writer_messages_of(st)
        user == [role |-> "user", content |-> <<st.user_input>>]
    IN  IF repairs_context(st)
        THEN Append(<<system_context(st), system_context(st)>> \o stored,
                    user)
        ELSE Append(stored, user)

\* continue_writer_session whose return branch leaves session_stage alone
continue_writer_session_KeepsStage(st, reply) ==
    IF ReturnTrigger(st.user_input)
    THEN [current_agent |-> "supervisor",
          supervisor_response |-> "returned_to_supervisor",
          next_action |-> "wait_for_input",
          ready_for_writer |-> FALSE,
          writer_messages |-> <<>>]
    ELSE IF context_unbound(st) \/ reply = Fail
    THEN [supervisor_response |-> "writer_error",
          next_action |-> "writer_active"]
    ELSE [supervisor_response |-> reply,
          next_action |-> "writer_active",
          writer_messages |->
              Append(continue_transcript_in(st),
                     [role |-> "assistant", content |-> <<reply>>])]

continue_writer_session(st, reply) ==
    IF ReturnTrigger(st.user_input)
    THEN [current_agent |-> "supervisor",
          supervisor_response |-> "returned_to_supervisor",
          next_action |-> "wait_for_input",
          session_stage |-> "init",
          ready_for_writer |-> FALSE,
          writer_messages |-> <<>>]
    ELSE IF context_unbound(st) \/ reply = Fail
    THEN [supervisor_response |-> "writer_error",
          next_action |-> "writer_active"]
    ELSE IF DoneKeyword(reply)
    THEN [supervisor_response |-> "writer_reply_with_completion_note",
          next_action |-> "writer_active",
          session_stage |-> "complete",
          writer_messages |->
              Append(continue_transcript_in(st),
                     [role |-> "assistant", content |-> <<reply>>])]
    ELSE [supervisor_response |-> reply,
          next_action |-> "writer_active",
          writer_messages |->
              Append(continue_transcript_in(st),
                     [role |-> "assistant", content |-> <<reply>>])]

\* Raised: the free-text answer raised, and nothing in the node catches it
generate_supervisor_response(st, answer) ==
    IF st.intent = "greeting"
    THEN [supervisor_response |-> "greeting", next_action |-> "wait_for_input"]
    ELSE IF st.intent = "help"
    THEN [supervisor_response |-> "help", next_action |-> "wait_for_input"]
    ELSE IF has_cv(st) /\ has_job(st)
    THEN [supervisor_response |-> "ready_to_tailor",
          next_action |-> "wait_for_input",
          ready_for_writer |-> TRUE]
    ELSE IF answer = Fail
    THEN Raised
    ELSE [supervisor_response |-> answer, next_action |-> "wait_for_input"]

\* handle_missing_data putting the session back to collecting the CV
handle_missing_data_BackToCollecting(st) ==
    [supervisor_response |->
         IF ~has_cv(st) /\ ~has_job(st) THEN "need_cv_and_job_start_with_cv"
         ELSE IF ~has_cv(st) THEN "need_cv"
         ELSE "need_job",
     next_action |-> "wait_for_input",
     session_stage |-> "collecting_cv"]

handle_missing_data(st) ==
    [supervisor_response |->
         IF ~has_cv(st) /\ ~has_job(st) THEN "need_cv_and_job_start_with_cv"
         ELSE IF ~has_cv(st) THEN "need_cv"
         ELSE "need_job",
     next_action |-> "wait_for_input"]

----------------------------------------------------------------------------
(* Edges *)

EntryPoint == "analyze_intent"

\* route_after_intent handing off when either record is present
route_after_intent_EitherRecord(st) ==
    IF st.current_agent = "writer" THEN "continue_writer"
    ELSE IF st.intent = "answer_clarification" /\ Truthy(st.pending_questions)
    THEN "handle_clarification"
    ELSE IF st.intent = "start_tailoring"
    THEN IF has_cv(st) \/ has_job(st) THEN "handoff_writer"
         ELSE "handle_missing_data"
    ELSE CASE st.intent = "upload_cv" -> "invoke_cv"
           [] st.intent \in {"provide_job_url", "provide_job_text"}
                  -> "invoke_job"
           [] st.intent = "research_company" -> "invoke_company_research"
           [] OTHER -> "generate_response"

\* route_after_intent without the check for an active writer
route_after_intent_NoWriterCheck(st) ==
    IF st.intent = "answer_clarification" /\ Truthy(st.pending_questions)
    THEN "handle_clarification"
    ELSE IF st.intent = "start_tailoring"
    THEN IF has_cv(st) /\ has_job(st) THEN "handoff_writer"
         ELSE "handle_missing_data"
    ELSE CASE st.intent = "upload_cv" -> "invoke_cv"
           [] st.intent \in {"provide_job_url", "provide_job_text"}
                  -> "invoke_job"
           [] st.intent = "research_company" -> "invoke_company_research"
           [] OTHER -> "generate_response"

\* route_after_intent sending every answer_clarification to the merge,
\* whether or not questions are open
route_after_intent_ClarifiesAlways(st) ==
    IF st.current_agent = "writer" THEN "continue_writer"
    ELSE IF st.intent = "answer_clarification"
    THEN "handle_clarification"
    ELSE IF st.intent = "start_tailoring"
    THEN IF has_cv(st) /\ has_job(st) THEN "handoff_writer"
         ELSE "handle_missing_data"
    ELSE CASE st.intent = "upload_cv" -> "invoke_cv"
           [] st.intent \in {"provide_job_url", "provide_job_text"}
                  -> "invoke_job"
           [] st.intent = "research_company" -> "invoke_company_research"
           [] OTHER -> "generate_response"

route_after_intent(st) ==
    IF st.current_agent = "writer" THEN "continue_writer"
    ELSE IF st.intent = "answer_clarification" /\ Truthy(st.pending_questions)
    THEN "handle_clarification"
    ELSE IF st.intent = "start_tailoring"
    THEN IF has_cv(st) /\ has_job(st) THEN "handoff_writer"
         ELSE "handle_missing_data"
    ELSE CASE st.intent = "upload_cv" -> "invoke_cv"
           [] st.intent \in {"provide_job_url", "provide_job_text"}
                  -> "invoke_job"
           [] st.intent = "research_company" -> "invoke_company_research"
           [] OTHER -> "generate_response"

\* the conditional edge after invoke_job
after_invoke_job(st) ==
    IF st.next_action = "ask_company_research"
    THEN "handle_company_decision" ELSE "END"

\* the edge after handle_company_decision leading back to invoke_job when
\* the user wants company research
after_company_decision_AsksAgain(st) ==
    IF st.next_action = "handoff_to_writer" THEN "handoff_writer"
    ELSE "invoke_job"

\* the conditional edge after handle_company_decision
after_company_decision(st) ==
    IF st.next_action = "handoff_to_writer" THEN "handoff_writer" ELSE "END"

----------------------------------------------------------------------------
(* API operations and graph steps *)

\* the threads that call one MemorySessionStorage
Threads == {1, 2}

\* no dict: what self._sessions.get(session_id) gives for an unknown id
NoRef == 0

NoCall == [op |-> "none"]
NoSnapshot == [taken |-> FALSE]

\* GenericSessionManager(storage, ttl_minutes=60)
MemTtl == 60

\* minutes after which a session is past MemTtl
MemTickMinutes == 61

\* the `data` of create_session
MemData == {[cv_data |-> "cv1"]}

\* the `updates` of update_session
MemUpdates ==
    {[cv_data |-> None, session_id |-> "other", created_at |-> "t9",
      messages |-> <<[role |-> "assistant", content |-> "plan"]>>],
     [cv_data |-> "cv2", mode |-> None]}

\* the calls a thread makes
MemCalls ==
    {[op |-> "create_session", data |-> d] : d \in MemData}
    \cup {[op |-> "get_session"], [op |-> "delete_session"],
          [op |-> "add_message", role |-> "user", content |-> "hi"],
          [op |-> "cleanup_expired_sessions", ttl_minutes |-> MemTtl]}
    \cup {[op |-> "update_session", updates |-> u] : u \in MemUpdates}

\* messages a call appends
Appends(call) ==
    IF call.op = "add_message" THEN 1
    ELSE IF call.op = "update_session" /\ "messages" \in DOMAIN call.updates
    THEN Len(call.updates.messages)
    ELSE 0

\* MemorySessionStorage() with no thread inside it.  `dicts` are the session
\* dicts ever stored, `lists` their `messages` lists and `idle` the minutes
\* since their last_accessed; `sessions` is the dict self._sessions holds
\* for the session id (NoRef when it holds none); `ret` is the value the
\* most recent call returned, `snap` the dict the most recent get_session
\* returned and `added` the messages appended by calls that returned True
\* since the session was created
MemInit ==
    [sessions |-> NoRef,
     dicts |-> <<>>,
     lists |-> <<>>,
     idle |-> <<>>,
     lock |-> 0,
     added |-> 0,
     ret |-> "none",
     snap |-> NoSnapshot,
     th |-> [t \in Threads |->
                [pc |-> "idle", call |-> NoCall, ref |-> NoRef]]]

\* a dict that self._sessions no longer holds can be reached only by a
\* thread that looked it up before, and its list only through a snapshot
Dropped == [session_id |-> "s1"]

\* the loop of update_session writing every incoming value, None included
storage_update_Overwrites(rec, u) ==
    LET written == DOMAIN u \ {"session_id", "created_at", "messages"}
    IN  [k \in DOMAIN rec \cup written |->
            IF k \in written THEN u[k] ELSE rec[k]]

\* the loop of update_session over the keys other than a `messages` list:
\* session_id and created_at are skipped, and so is a None for a key the
\* session has
storage_update(rec, u) ==
    LET written == {k \in DOMAIN u \ {"session_id", "created_at", "messages"} :
                       ~(u[k] = None /\ k \in DOMAIN rec)}
    IN  [k \in DOMAIN rec \cup written |->
            IF k \in written THEN u[k] ELSE rec[k]]

\* the variables of the supervisor API, which the storage does not touch
api_vars ==
    <<session, state, pc, ran, calls, outcomes, tailor_out, null_keys,
      api_response, direct_calls, checkpoint, idle, peer, before, inbox,
      answered>>

\* a thread calls an operation and comes to its `with self._lock`
MemCall(t, call) ==
    /\ mem.th[t].pc = "idle"
    /\ call.op = "create_session" => Len(mem.dicts) < MaxCreates
    /\ Appends(call) > 0
       => \A g \in 1..Len(mem.lists) :
             Len(mem.lists[g]) + Appends(call) <= MaxMemMsgs
    /\ mem' = [mem EXCEPT !.th[t].pc = "waiting", !.th[t].call = call]
    /\ UNCHANGED api_vars

\* `with self._lock` entered whether or not another thread holds the lock
MemAcquire_NoLock(t) ==
    /\ mem.th[t].pc = "waiting"
    /\ mem' = [mem EXCEPT !.th[t].pc = "locked"]
    /\ UNCHANGED api_vars

\* `with self._lock`: the thread enters when no thread holds the lock
MemAcquire(t) ==
    /\ mem.th[t].pc = "waiting"
    /\ mem.lock = 0
    /\ mem' = [mem EXCEPT !.lock = t, !.th[t].pc = "locked"]
    /\ UNCHANGED api_vars

\* the first statement inside the lock: the look-up of the session id (for
\* cleanup, the list of the ids whose last_accessed is more than ttl ago)
MemLookup(t) ==
    /\ mem.th[t].pc = "locked"
    /\ LET call == mem.th[t].call
           found == IF mem.sessions = NoRef THEN NoRef
                    ELSE IF call.op = "cleanup_expired_sessions"
                            /\ ~(mem.idle[mem.sessions] > call.ttl_minutes)
                    THEN NoRef
                    ELSE mem.sessions
       IN  mem' = [mem EXCEPT !.th[t].pc = "found", !.th[t].ref = found]
    /\ UNCHANGED api_vars

\* the thread leaves the lock with the value the operation returns
MemReturn(m, t, res) ==
    [m EXCEPT !.lock = IF @ = t THEN 0 ELSE @,
              !.th[t].pc = "idle",
              !.th[t].call = NoCall,
              !.th[t].ref = NoRef,
              !.ret = res]

\* `del self._sessions[session_id]`
MemDel(m, t, res) ==
    IF m.sessions = NoRef THEN MemReturn(m, t, "KeyError")
    ELSE MemReturn(
           [m EXCEPT !.sessions = NoRef,
                     !.added = 0,
                     !.dicts[m.sessions] = Dropped,
                     !.idle[m.sessions] = 0,
                     !.lists[m.sessions] =
                         IF m.snap.taken /\ m.snap.messages = m.sessions
                         THEN @ ELSE <<>>],
           t, res)

\* the rest of the operation, on the dict the look-up gave; `kept` says
\* whether the caller of get_session holds on to the dict it is given
MemApplyAs(t, kept) ==
    /\ mem.th[t].pc = "found"
    /\ LET call == mem.th[t].call
           r == mem.th[t].ref
           g == Len(mem.dicts) + 1
       IN  mem' =
             CASE call.op = "create_session" ->
                    IF r # NoRef THEN MemReturn(mem, t, "False")
                    ELSE MemReturn(
                           [mem EXCEPT
                              !.sessions = g,
                              !.dicts = Append(@,
                                  [k \in {"session_id", "session_type",
                                          "created_at", "messages"}
                                         \cup DOMAIN call.data |->
                                      IF k \in DOMAIN call.data
                                      THEN call.data[k]
                                      ELSE IF k = "session_id" THEN "s1"
                                      ELSE IF k = "session_type" THEN "writer"
                                      ELSE IF k = "created_at" THEN "t0"
                                      ELSE "list"]),
                              !.lists = Append(@, <<>>),
                              !.idle = Append(@, 0),
                              !.added = 0],
                           t, "True")
               [] call.op = "get_session" ->
                    IF r = NoRef THEN MemReturn(mem, t, "None")
                    ELSE MemReturn(
                           [mem EXCEPT
                              !.idle[r] = 0,
                              !.snap = IF kept
                                       THEN [taken |-> TRUE,
                                             dict |-> mem.dicts[r],
                                             messages |-> r]
                                       ELSE @],
                           t, "dict")
               [] call.op = "update_session" ->
                    IF r = NoRef THEN MemReturn(mem, t, "False")
                    ELSE MemReturn(
                           [mem EXCEPT
                              !.dicts[r] = storage_update(@, call.updates),
                              !.lists[r] =
                                  IF "messages" \in DOMAIN call.updates
                                  THEN @ \o call.updates.messages ELSE @,
                              !.idle[r] = 0,
                              !.added = @ + Appends(call)],
                           t, "True")
               [] call.op = "delete_session" ->
                    IF r = NoRef THEN MemReturn(mem, t, "False")
                    ELSE MemDel(mem, t, "True")
               [] call.op = "add_message" ->
                    IF r = NoRef THEN MemReturn(mem, t, "False")
                    ELSE MemReturn(
                           [mem EXCEPT
                              !.lists[r] = Append(@,
                                  [role |-> call.role,
                                   content |-> call.content]),
                              !.idle[r] = 0,
                              !.added = @ + 1],
                           t, "True")
               [] call.op = "cleanup_expired_sessions" ->
                    IF r = NoRef THEN MemReturn(mem, t, "0")
                    ELSE MemDel(mem, t, "1")
    /\ UNCHANGED api_vars

\* time passes until the stored session is past MemTtl
MemTick ==
    /\ mem.sessions # NoRef
    /\ mem.idle[mem.sessions] = 0
    /\ mem' = [mem EXCEPT !.idle[mem.sessions] = MemTickMinutes]
    /\ UNCHANGED api_vars

Init ==
    /\ session = NoSession
    /\ state = NoState
    /\ pc = "idle"
    /\ ran = <<>>
    /\ calls = {}
    /\ outcomes = {}
    /\ tailor_out = NoTranscript
    /\ null_keys = {}
    /\ api_response = [kind |-> "none"]
    /\ direct_calls = 0
    /\ checkpoint = <<>>
    /\ idle = 0
    /\ peer = NoSession
    /\ before = NoSession
    /\ inbox = {}
    /\ answered = 0
    /\ mem = MemInit

\* the `messages` channel of a graph state, empty when it is not followed
messages_of(st) == IF "messages" \in DOMAIN st THEN st.messages ELSE <<>>

\* POST /session/start
StartSessionAs(template) ==
    /\ pc = "idle"
    /\ session = NoSession
    /\ session' = template
    /\ idle' = 0
    /\ checkpoint' = <<>>
    /\ api_response' = [kind |-> "started", op |-> "start_session"]
    /\ answered' = 0
    /\ UNCHANGED <<state, pc, ran, calls, outcomes, tailor_out, null_keys,
                   direct_calls, peer, before, inbox, mem>>

StartSession == StartSessionAs(create_session)

StartSessionNoLog == StartSessionAs(create_session_no_log)

\* DELETE /session/{id}
DeleteSession ==
    /\ pc = "idle"
    /\ IF session = NoSession
       THEN /\ api_response' = [kind |-> "not_found",
                                     op |-> "delete_session"]
            /\ UNCHANGED session
       ELSE /\ session' = NoSession
            /\ api_response' = [kind |-> "deleted", op |-> "delete_session"]
    /\ idle' = 0
    /\ answered' = IF session' = NoSession THEN 0 ELSE answered
    /\ UNCHANGED <<state, pc, ran, calls, outcomes, tailor_out, null_keys,
                   direct_calls, checkpoint, peer, before,
                   inbox, mem>>

\* POST /session/message on an unknown id opening a session for it
SendMessageNotFound_Creates ==
    /\ pc = "idle"
    /\ session = NoSession \/ Expired(idle)
    /\ session' = create_session_no_log
    /\ idle' = 0
    /\ api_response' = [kind |-> "not_found", op |-> "send_message"]
    /\ answered' = 0
    /\ UNCHANGED <<state, pc, ran, calls, outcomes, tailor_out,
                   null_keys, direct_calls, checkpoint, peer, before,
                   inbox, mem>>

\* POST /session/message on an id get_session does not serve: it is not in
\* the store, or it has expired and is removed
SendMessageNotFound ==
    /\ pc = "idle"
    /\ session = NoSession \/ Expired(idle)
    /\ session' = NoSession
    /\ idle' = 0
    /\ api_response' = [kind |-> "not_found", op |-> "send_message"]
    /\ answered' = 0
    /\ UNCHANGED <<state, pc, ran, calls, outcomes, tailor_out,
                   null_keys, direct_calls, checkpoint, peer, before,
                   inbox, mem>>

\* send_message from get_session to the graph's entry: the stored record
\* gets the input and the count, the graph starts on a copy of it
BeginTurn(u, limit) ==
    /\ session # NoSession
    /\ ~Expired(idle)
    /\ session.conversation_count < limit
    /\ idle' = 0
    /\ session' = [session EXCEPT !.user_input = u,
                                  !.conversation_count = @ + 1]
    /\ state' = graph_input(session', checkpoint)
    /\ before' = [session EXCEPT !.user_input = u]
    /\ pc' = EntryPoint
    /\ ran' = <<>>
    /\ calls' = {}
    /\ outcomes' = {}
    /\ tailor_out' = NoTranscript
    /\ UNCHANGED <<null_keys, api_response, direct_calls, checkpoint, peer,
                   answered, mem>>

\* POST /session/message: the handler runs when no other handler is running
SendMessageWithin(u, limit) ==
    /\ pc = "idle"
    /\ BeginTurn(u, limit)
    /\ UNCHANGED inbox

SendMessage(u) == SendMessageWithin(u, MaxTurns)

\* an exception leaves the graph: send_message answers success=False and
\* does not call update_session
GraphRaises(node, call) ==
    /\ pc' = "idle"
    /\ state' = NoState
    /\ ran' = <<>>
    /\ calls' = {}
    /\ outcomes' = {}
    /\ tailor_out' = NoTranscript
    /\ api_response' = [kind |-> "error",
                        assistant_message |-> "apology",
                        raised_in |-> node,
                        failed_call |-> call,
                        next_action |-> "wait_for_input"]
    /\ checkpoint' = messages_of(state)
    /\ before' = NoSession
    /\ answered' = answered + 1
    /\ UNCHANGED <<session, null_keys, direct_calls, idle, peer, inbox, mem>>

\* the "messages" entry of the record a node returns: analyze_intent notes
\* the label, the hand-off and the return from the writer note the switch
\* before the answer, every other return carries its answer or error note
node_messages(node, update) ==
    IF node = "analyze_intent"
    THEN <<[role |-> "system", content |-> update.intent]>>
    ELSE IF node = "handoff_writer" /\ "current_agent" \in DOMAIN update
    THEN <<[role |-> "system", content |-> "handed_off_to_writer"],
           [role |-> "assistant", content |-> update.supervisor_response]>>
    ELSE IF node = "continue_writer" /\ "current_agent" \in DOMAIN update
    THEN <<[role |-> "system", content |-> "returned_from_writer"],
           [role |-> "assistant", content |-> update.supervisor_response]>>
    ELSE <<[role |-> "assistant", content |-> update.supervisor_response]>>

with_messages(node, update) ==
    [k \in DOMAIN update \cup {"messages"} |->
        IF k = "messages" THEN node_messages(node, update) ELSE update[k]]

\* a node returns `update`; `results` holds each collaborator call it made
\* with the value that came back (Fail when the call raised); `next` is the
\* node's outgoing edge
Step(node, update, results, next) ==
    /\ state' = ApplyUpdate(state, with_messages(node, update))
    /\ ran' = Append(ran, node)
    /\ calls' = calls \cup {r[1] : r \in results}
    /\ outcomes' = outcomes \cup results
    /\ pc' = next
    /\ UNCHANGED <<session, null_keys, api_response, direct_calls, checkpoint,
                   idle, peer, before,
                   inbox, answered, mem>>

\* analyze_intent passing a writer-owned turn on without classifying it
AnalyzeIntent_SkipsWriter ==
    /\ pc = "analyze_intent"
    /\ IF state.current_agent = "writer"
       THEN /\ UNCHANGED tailor_out
            /\ Step("analyze_intent", [intent |-> state.intent], {},
                    "continue_writer")
       ELSE \E label \in Intents \cup {Fail} :
              IF label = Fail
              THEN GraphRaises("analyze_intent", "classifier")
              ELSE /\ UNCHANGED tailor_out
                   /\ Step("analyze_intent", [intent |-> label],
                           {<<"classifier", label>>},
                           route_after_intent(
                               ApplyUpdate(state, [intent |-> label])))

AnalyzeIntent ==
    /\ pc = "analyze_intent"
    /\ \E label \in Intents \cup {Fail} :
          IF label = Fail
          THEN GraphRaises("analyze_intent", "classifier")
          ELSE /\ UNCHANGED tailor_out
               /\ Step("analyze_intent", [intent |-> label],
                       {<<"classifier", label>>},
                       route_after_intent(ApplyUpdate(state, [intent |-> label])))

InvokeCv ==
    /\ pc = "invoke_cv"
    /\ \E extracted \in CvRecords \cup {Fail},
          questions \in AmbiguityReplies \cup {Fail} :
          Step("invoke_cv", invoke_cv_agent(state, extracted, questions),
               IF ~FileExists(state.user_input) THEN {}
               ELSE IF extracted = Fail THEN {<<"extract", Fail>>}
               ELSE {<<"extract", extracted>>,
                     <<"find_ambiguities", questions>>},
               "END")
    /\ UNCHANGED tailor_out

HandleClarification ==
    /\ pc = "handle_clarification"
    /\ \E merged \in MergedCvRecords \cup {Fail} :
          Step("handle_clarification", handle_cv_clarification(state, merged),
               {<<"merge_clarification", merged>>}, "END")
    /\ UNCHANGED tailor_out

InvokeJob ==
    /\ pc = "invoke_job"
    /\ \E job \in JobRecords \cup {Fail} :
          LET update == invoke_job_agent(state, job)
          IN  Step("invoke_job", update,
                   IF state.intent = "provide_job_url"
                   THEN IF HasUrl(state.user_input)
                        THEN {<<"from_url", job>>} ELSE {}
                   ELSE {<<"from_text", job>>},
                   after_invoke_job(ApplyUpdate(state, update)))
    /\ UNCHANGED tailor_out

HandleCompanyDecision ==
    /\ pc = "handle_company_decision"
    /\ LET update == handle_company_research_decision(state)
       IN  Step("handle_company_decision", update, {},
                after_company_decision(ApplyUpdate(state, update)))
    /\ UNCHANGED tailor_out

\* the edge from invoke_company_research to handoff_writer is unconditional
InvokeCompanyResearch ==
    /\ pc = "invoke_company_research"
    /\ \E company \in CompanyRecords \cup {Fail} :
          Step("invoke_company_research",
               invoke_company_research(state, company),
               {<<"research_company", company>>}, "handoff_writer")
    /\ UNCHANGED tailor_out

HandoffWriter ==
    /\ pc = "handoff_writer"
    /\ \E reply \in WriterReplies \cup {Fail} :
          LET update == handoff_to_writer(state, reply)
              refused == format_data(state.cv_data) = ""
                         /\ format_data(state.job_data) = ""
          IN  /\ Step("handoff_writer", update,
                      IF refused THEN {} ELSE {<<"tailor_start", reply>>},
                      "END")
              /\ tailor_out' =
                     IF refused THEN NoTranscript
                     ELSE IF reply = Fail
                     THEN [returned |-> FALSE,
                           passed |-> handoff_transcript_in(state)]
                     ELSE [returned |-> TRUE,
                           passed |-> handoff_transcript_in(state),
                           transcript |-> update.writer_messages]

ContinueWriter ==
    /\ pc = "continue_writer"
    /\ \E reply \in WriterReplies \cup {Fail} :
          LET update == continue_writer_session(state, reply)
              invoked == /\ ~ReturnTrigger(state.user_input)
                         /\ ~context_unbound(state)
          IN  /\ Step("continue_writer", update,
                      IF invoked THEN {<<"tailor_continue", reply>>} ELSE {},
                      "END")
              /\ tailor_out' =
                     IF ~invoked THEN NoTranscript
                     ELSE IF reply = Fail
                     THEN [returned |-> FALSE,
                           passed |-> continue_transcript_in(state)]
                     ELSE [returned |-> TRUE,
                           passed |-> continue_transcript_in(state),
                           transcript |-> update.writer_messages]

GenerateResponse ==
    /\ pc = "generate_response"
    /\ \E answer \in {"answer", Fail} :
          LET update == generate_supervisor_response(state, answer)
              asked == /\ state.intent \notin {"greeting", "help"}
                       /\ ~(has_cv(state) /\ has_job(state))
          IN  IF update = Raised
              THEN GraphRaises("generate_response", "free_text_answer")
              ELSE /\ Step("generate_response", update,
                           IF asked THEN {<<"free_text_answer", answer>>}
                           ELSE {},
                           "END")
                   /\ UNCHANGED tailor_out

HandleMissingData ==
    /\ pc = "handle_missing_data"
    /\ Step("handle_missing_data", handle_missing_data(state), {}, "END")
    /\ UNCHANGED tailor_out

\* the graph reached END: send_message stores the result and answers;
\* update_session goes through get_session, which removes an expired session
Persist ==
    /\ pc = "END"
    /\ session' = IF Expired(idle) THEN NoSession
                  ELSE update_session(session, state)
    /\ idle' = 0
    /\ null_keys' = NullsOf(state)
    /\ api_response' =
           [kind |-> "ok",
            assistant_message |-> state.supervisor_response,
            next_action |-> state.next_action]
    /\ pc' = "idle"
    /\ state' = NoState
    /\ ran' = <<>>
    /\ calls' = {}
    /\ outcomes' = {}
    /\ tailor_out' = NoTranscript
    /\ checkpoint' = messages_of(state)
    /\ before' = NoSession
    /\ answered' = answered + 1
    /\ UNCHANGED <<direct_calls, peer, inbox, mem>>

\* SessionManager.update_session called with any update
DirectUpdates ==
    LET values(k) == CASE k = "cv_data" -> {None} \cup CvRecords
                       [] k = "job_data" -> {None} \cup JobRecords
                       [] k = "company_data" -> {None} \cup CompanyRecords
    IN  UNION {{u \in [K -> {None} \cup CvRecords \cup JobRecords
                                   \cup CompanyRecords] :
                    \A k \in K : u[k] \in values(k)} :
               K \in SUBSET DataKeys \ {{}}}

\* update_session called with a list for `messages`
LogUpdates ==
    LET note == [role |-> "user", content |-> "note"]
    IN  {[messages |-> <<note>>],
         [messages |-> <<note>>, cv_data |-> None]}

UpdateSessionWith(updates) ==
    /\ pc = "idle"
    /\ session # NoSession
    /\ direct_calls < MaxDirectCalls
    /\ direct_calls' = direct_calls + 1
    /\ \E u \in updates :
          /\ session' = IF Expired(idle) THEN NoSession
                        ELSE update_session(session, u)
          /\ null_keys' = NullsOf(u)
    /\ idle' = 0
    /\ UNCHANGED <<state, pc, ran, calls, outcomes, tailor_out, api_response,
                   checkpoint, peer, before,
                   inbox, answered, mem>>

UpdateSessionCall == UpdateSessionWith(DirectUpdates)

\* GET /session/{id}/state changing a field of the session it reports
GetState_ClearsFlag ==
    /\ pc = "idle"
    /\ IF session = NoSession \/ Expired(idle)
       THEN /\ session' = NoSession
            /\ api_response' = [kind |-> "not_found", op |-> "get_state"]
       ELSE /\ session' = [session EXCEPT !.needs_clarification = FALSE]
            /\ api_response' = [kind |-> "state", op |-> "get_state",
                                session_info |-> get_session_info(session)]
    /\ idle' = 0
    /\ answered' = IF session' = NoSession THEN 0 ELSE answered
    /\ UNCHANGED <<state, pc, ran, calls, outcomes, tailor_out, null_keys,
                   direct_calls, checkpoint, peer, before,
                   inbox, mem>>

\* GET /session/{id}/state
GetState ==
    /\ pc = "idle"
    /\ IF session = NoSession \/ Expired(idle)
       THEN /\ session' = NoSession
            /\ api_response' = [kind |-> "not_found", op |-> "get_state"]
       ELSE /\ UNCHANGED session
            /\ api_response' = [kind |-> "state", op |-> "get_state",
                                session_info |-> get_session_info(session)]
    /\ idle' = 0
    /\ answered' = IF session' = NoSession THEN 0 ELSE answered
    /\ UNCHANGED <<state, pc, ran, calls, outcomes, tailor_out, null_keys,
                   direct_calls, checkpoint, peer, before,
                   inbox, mem>>

\* POST /session/start for another id of the same store
StartPeer ==
    /\ pc = "idle"
    /\ peer = NoSession
    /\ peer' = [idle |-> 0]
    /\ api_response' = [kind |-> "started", op |-> "start_session",
                        sid |-> "peer"]
    /\ UNCHANGED <<session, state, pc, ran, calls, outcomes, tailor_out,
                   null_keys, direct_calls, checkpoint, idle, before,
                   inbox, answered, mem>>

\* time passes; the store looks at the clock when a request starts and when
\* update_session runs at the end of a turn
Tick(minutes) ==
    /\ pc \in {"idle", "END"}
    /\ session # NoSession \/ peer # NoSession
    /\ session # NoSession => idle + minutes <= MaxIdle
    /\ peer # NoSession => peer.idle + minutes <= MaxIdle
    /\ idle' = IF session # NoSession THEN idle + minutes ELSE idle
    /\ peer' = IF peer # NoSession THEN [idle |-> peer.idle + minutes]
               ELSE peer
    /\ UNCHANGED <<session, state, pc, ran, calls, outcomes, tailor_out,
                   null_keys, api_response, direct_calls, checkpoint, before,
                   inbox, answered, mem>>

\* POST /cleanup-sessions: cleanup_expired_sessions
CleanupSessions ==
    /\ pc = "idle"
    /\ LET held == (IF session # NoSession THEN {"main"} ELSE {})
                   \cup (IF peer # NoSession THEN {"peer"} ELSE {})
           minutes(sid) == IF sid = "main" THEN idle ELSE peer.idle
           gone == {sid \in held : Expired(minutes(sid))}
       IN  /\ session' = IF "main" \in gone THEN NoSession ELSE session
           /\ idle' = IF "main" \in gone THEN 0 ELSE idle
           /\ peer' = IF "peer" \in gone THEN NoSession ELSE peer
           /\ api_response' = [kind |-> "cleanup", op |-> "cleanup_sessions",
                               cleaned_sessions |-> Cardinality(gone),
                               remaining_sessions |->
                                   Cardinality(held \ gone)]
    /\ answered' = IF session' = NoSession THEN 0 ELSE answered
    /\ UNCHANGED <<state, pc, ran, calls, outcomes, tailor_out, null_keys,
                   direct_calls, checkpoint, before,
                   inbox, mem>>

UpdateSessionLog == UpdateSessionWith(LogUpdates)

Handlers ==
    \/ AnalyzeIntent
    \/ InvokeCv
    \/ HandleClarification
    \/ InvokeJob
    \/ HandleCompanyDecision
    \/ InvokeCompanyResearch
    \/ HandoffWriter
    \/ ContinueWriter
    \/ GenerateResponse
    \/ HandleMissingData
    \/ Persist

Next ==
    \/ StartSessionNoLog
    \/ DeleteSession
    \/ SendMessageNotFound
    \/ \E u \in Inputs : SendMessage(u)
    \/ Handlers

Spec == Init /\ [][Next]_vars

\* the same, with update_session also called directly
NextStore ==
    \/ StartSessionNoLog
    \/ DeleteSession
    \/ SendMessageNotFound
    \/ \E u \in StoreInputs : SendMessageWithin(u, MaxStoreTurns)
    \/ Handlers
    \/ UpdateSessionCall

SpecStore == Init /\ [][NextStore]_vars

\* sessions followed with their conversation log
NextLog ==
    \/ StartSession
    \/ DeleteSession
    \/ SendMessageNotFound
    \/ \E u \in LogInputs : SendMessageWithin(u, MaxLogTurns)
    \/ Handlers
    \/ UpdateSessionLog

SpecLog == Init /\ [][NextLog]_vars

\* the store with the clock running: sessions idle, expire and are swept
NextTtl ==
    \/ StartSessionNoLog
    \/ StartPeer
    \/ DeleteSession
    \/ GetState
    \/ SendMessageNotFound
    \/ \E u \in TtlInputs : SendMessageWithin(u, MaxTtlTurns)
    \/ Handlers
    \/ \E minutes \in TickMinutes : Tick(minutes)
    \/ CleanupSessions

SpecTtl == Init /\ [][NextTtl]_vars

\* a POST /session/message request reaches the server: it can arrive at any
\* moment, also while the handler of an earlier request is running
Receive(u) ==
    /\ u \notin inbox
    /\ Cardinality(inbox) < MaxInflight
    /\ inbox' = inbox \cup {u}
    /\ UNCHANGED <<session, state, pc, ran, calls, outcomes, tailor_out,
                   null_keys, api_response, direct_calls, checkpoint, idle,
                   peer, before, answered, mem>>

\* a handler that gives up control between get_session and update_session:
\* the next request begins while the turn of the earlier one is under way
Dispatch_Preempts(u) ==
    /\ u \in inbox
    /\ BeginTurn(u, MaxRaceTurns)
    /\ inbox' = inbox \ {u}

\* the event loop begins the handler of a request it holds; send_message is
\* a coroutine without an await, so it begins only when no handler is running
\* and runs to its answer before the next one begins
Dispatch(u) ==
    /\ pc = "idle"
    /\ u \in inbox
    /\ BeginTurn(u, MaxRaceTurns)
    /\ inbox' = inbox \ {u}

\* the handler of a held request finds no session to serve
DispatchNotFound(u) ==
    /\ pc = "idle"
    /\ u \in inbox
    /\ session = NoSession \/ Expired(idle)
    /\ session' = NoSession
    /\ idle' = 0
    /\ answered' = 0
    /\ api_response' = [kind |-> "not_found", op |-> "send_message"]
    /\ inbox' = inbox \ {u}
    /\ UNCHANGED <<state, pc, ran, calls, outcomes, tailor_out, null_keys,
                   direct_calls, checkpoint, peer, before, mem>>

\* the storage called from the threads
NextMem ==
    \/ \E t \in Threads : \E call \in MemCalls : MemCall(t, call)
    \/ \E t \in Threads : MemAcquire(t)
    \/ \E t \in Threads : MemLookup(t)
    \/ \E t \in Threads : MemApplyAs(t, FALSE)
    \/ MemTick

SpecMem == Init /\ [][NextMem]_vars

\* the storage called by one caller that holds on to the dict get_session
\* returned, as send_writer_message does while it adds the user's message
NextSnap ==
    \/ \E call \in MemCalls : MemCall(1, call)
    \/ MemAcquire(1)
    \/ MemLookup(1)
    \/ MemApplyAs(1, TRUE)
    \/ MemTick

SpecSnap == Init /\ [][NextSnap]_vars

\* turns with their steps taken: the graph runs a node as soon as the one
\* before it returned, and send_message stores the result at END
NextLive ==
    \/ StartSessionNoLog
    \/ DeleteSession
    \/ SendMessageNotFound
    \/ \E u \in Inputs : SendMessageWithin(u, MaxLiveTurns)
    \/ Handlers

SpecLive == Init /\ [][NextLive]_vars /\ WF_vars(Handlers)

\* requests for one session arriving while its turns run
NextRace ==
    \/ StartSessionNoLog
    \/ \E u \in RaceInputs : Receive(u)
    \/ \E u \in RaceInputs : Dispatch(u)
    \/ \E u \in RaceInputs : DispatchNotFound(u)
    \/ Handlers

SpecRace == Init /\ [][NextRace]_vars

----------------------------------------------------------------------------
(* Properties *)

Running == pc # "idle"
Stored == session # NoSession
WriterOwnsTurn == Running /\ session.current_agent = "writer"

\* collaborator calls of the running turn that raised
failed == {o[1] : o \in {r \in outcomes : r[2] = Fail}}

\* the value a collaborator call of the running turn came back with
Returned(call, value) == <<call, value>> \in outcomes /\ value # Fail

\* s is an initial segment of t
IsPrefix(s, t) == Len(s) <= Len(t) /\ SubSeq(t, 1, Len(s)) = s

\* the answers that tell the user a call or an input failed
ErrorResponses ==
    {"cv_file_not_found", "cv_error", "clarification_error", "invalid_url",
     "job_error", "company_error", "handoff_error", "writer_error"}

\* the stored fields a turn with a failed call is to leave alone
FrameKeys ==
    {"session_stage", "current_agent", "cv_data", "job_data", "company_data",
     "pending_questions", "needs_clarification", "ready_for_writer"}

\* C1: in every stored session, needs_clarification is true exactly when
\* pending_questions is not None (also after an extraction without
\* ambiguities on a session that had pending questions).
C1_NeedsClarificationIffPending ==
    Stored =>
        (session.needs_clarification <=> session.pending_questions # None)

\* C2: in every stored session, ready_for_writer implies that cv_data and
\* job_data are both present.
C2_ReadyImpliesBothRecords ==
    Stored =>
        (session.ready_for_writer => has_cv(session) /\ has_job(session))

\* C3: the handoff_writer node is entered only with cv_data and job_data
\* both present, and so current_agent becomes writer only then.
C3_HandoffOnlyWithBothRecords ==
    /\ pc = "handoff_writer" => has_cv(state) /\ has_job(state)
    /\ (Running /\ state.current_agent = "writer")
           => has_cv(state) /\ has_job(state)

\* C4: with the supervisor active and intent start_tailoring, routing picks
\* handoff_writer exactly when both records are present and
\* handle_missing_data otherwise.
C4_StartTailoringRouting ==
    (/\ ran = <<"analyze_intent">>
     /\ Running
     /\ state.current_agent = "supervisor"
     /\ state.intent = "start_tailoring")
    => pc = IF has_cv(state) /\ has_job(state)
            THEN "handoff_writer" ELSE "handle_missing_data"

C4_Witness_JobOnlyAsksForCv ==
    /\ ran = <<"analyze_intent">>
    /\ Running
    /\ state.current_agent = "supervisor"
    /\ state.intent = "start_tailoring"
    /\ ~has_cv(state)
    /\ has_job(state)
    /\ pc = "handle_missing_data"

\* C5: once the stored session holds cv_data, job_data or company_data, no
\* turn and no update_session call makes that field None again while the
\* session exists.
C5_RecordsNeverNulled ==
    [][\A f \in DataKeys :
          (Stored /\ session' # NoSession /\ session[f] # None)
              => session'[f] # None]_vars

C5_Witness_NoneOverStoredCv ==
    /\ Stored
    /\ direct_calls > 0
    /\ "cv_data" \in null_keys
    /\ session.cv_data # None

C7_WriterTurnContinues ==
    (WriterOwnsTurn /\ ~ReturnTrigger(state.user_input)) =>
        /\ pc \in {"analyze_intent", "continue_writer", "END"}
        /\ \A i \in 1..Len(ran) :
              ran[i] = IF i = 1 THEN "analyze_intent" ELSE "continue_writer"
        /\ calls \subseteq {"classifier", "tailor_continue"}
        /\ pc = "END" =>
              /\ ran = <<"analyze_intent", "continue_writer">>
              /\ "tailor_continue" \in calls

C7_Witness_UploadIntentStillContinues ==
    /\ WriterOwnsTurn
    /\ pc = "END"
    /\ ~ReturnTrigger(state.user_input)
    /\ state.intent = "upload_cv"
    /\ ran = <<"analyze_intent", "continue_writer">>

C10_HandoffSuccessStored ==
    [][(/\ pc = "END"
        /\ ran[Len(ran)] = "handoff_writer"
        /\ tailor_out.returned)
       => /\ session'.current_agent = "writer"
          /\ session'.ready_for_writer
          /\ session'.session_stage = "writer_session"
          /\ writer_messages_of(session') = tailor_out.transcript]_vars

\* C11: when the Tailor raises inside handoff_to_writer, the turn answers
\* with the hand-off error and the stored session stays with the supervisor.
C11_HandoffFailureStaysWithSupervisor ==
    [][(pc = "END" /\ "tailor_start" \in failed)
       => /\ session'.current_agent = "supervisor"
          /\ session'.supervisor_response = "handoff_error"
          /\ api_response'.kind = "ok"
          /\ api_response'.assistant_message = "handoff_error"]_vars

C11_Witness_TailorRaisedAtHandoff ==
    /\ pc = "END"
    /\ "tailor_start" \in failed
    /\ has_cv(state)
    /\ has_job(state)
    /\ state.current_agent = "supervisor"

\* C12: a turn in which a collaborator call raised stores the same stage,
\* active collaborator, records, clarification fields, readiness flag and
\* writer transcript that the session held before the turn.
C12_FailedCallChangesNothing ==
    [][(pc = "END" /\ failed # {})
       => /\ \A k \in FrameKeys : session'[k] = session[k]
          /\ writer_messages_of(session') = writer_messages_of(session)]_vars

\* the running turn went from analyze_intent to `node` and nowhere else
TurnOf(node) == ran = <<"analyze_intent", node>>

\* C13: an upload turn whose file does not exist, or whose extraction or
\* ambiguity check raised, answers with an error message and stores the
\* same cv record, stage, pending questions and clarification flag as before.
C13_FailedUploadCommitsNothing ==
    [][(/\ pc = "END"
        /\ TurnOf("invoke_cv")
        /\ \/ ~FileExists(session.user_input)
           \/ failed \cap {"extract", "find_ambiguities"} # {})
       => /\ \A k \in {"cv_data", "session_stage", "pending_questions",
                       "needs_clarification"} : session'[k] = session[k]
          /\ api_response'.assistant_message
                 \in {"cv_file_not_found", "cv_error"}]_vars

C13_Witness_AmbiguityCheckRaisedOnFreshSession ==
    /\ pc = "END"
    /\ TurnOf("invoke_cv")
    /\ Returned("extract", "cv1")
    /\ "find_ambiguities" \in failed
    /\ session.session_stage = "init"
    /\ ~has_cv(session)

\* C14: when extraction succeeds and the ambiguity check comes back with
\* questions, the stored session holds the extracted record, those questions,
\* needs_clarification = TRUE and stage collecting_cv, and the turn made no
\* collaborator call other than the classifier, extraction and the check.
C14_QuestionsOpenClarification ==
    [][(/\ pc = "END"
        /\ TurnOf("invoke_cv")
        /\ \E q \in AmbiguityReplies :
              Returned("find_ambiguities", q) /\ NeedsClarification(q))
       => /\ \E r \in CvRecords :
                Returned("extract", r) /\ session'.cv_data = r
          /\ \E q \in AmbiguityReplies :
                Returned("find_ambiguities", q)
                /\ session'.pending_questions = q
          /\ session'.needs_clarification = TRUE
          /\ session'.session_stage = "collecting_cv"
          /\ session'.current_agent = "supervisor"
          /\ calls = {"classifier", "extract", "find_ambiguities"}]_vars

C14_Witness_ExtractionWithQuestions ==
    /\ pc = "END"
    /\ TurnOf("invoke_cv")
    /\ Returned("extract", "cv1")
    /\ Returned("find_ambiguities", "q1")
    /\ session.session_stage # "collecting_cv"

\* C15: when the merge of a clarification succeeds, the stored session holds
\* the merged record, pending_questions = None, needs_clarification = FALSE
\* and stage collecting_job.
C15_ClarificationMergedAndCleared ==
    [][(/\ pc = "END"
        /\ \E m \in MergedCvRecords : Returned("merge_clarification", m))
       => /\ \E m \in MergedCvRecords :
                Returned("merge_clarification", m) /\ session'.cv_data = m
          /\ session'.pending_questions = None
          /\ session'.needs_clarification = FALSE
          /\ session'.session_stage = "collecting_job"]_vars

C15_Witness_MergeOverOpenQuestions ==
    /\ pc = "END"
    /\ TurnOf("handle_clarification")
    /\ Returned("merge_clarification", "cv1m")
    /\ session.pending_questions = "q1"
    /\ session.needs_clarification = TRUE
    /\ session.cv_data = "cv1"

\* C16: when the merge of a clarification raises, the stored cv record, stage
\* and clarification flag are as before, pending_questions is still set, and
\* a following clarification answer is routed to handle_clarification again.
C16_FailedMergeCanBeRetried ==
    [][(pc = "END" /\ "merge_clarification" \in failed)
       => /\ \A k \in {"cv_data", "session_stage", "needs_clarification",
                       "pending_questions"} : session'[k] = session[k]
          /\ session'.pending_questions # None
          /\ route_after_intent(
                 [session' EXCEPT !.intent = "answer_clarification"])
                 = "handle_clarification"]_vars

C16_Witness_MergeRaisedTwice ==
    /\ pc = "END"
    /\ "merge_clarification" \in failed
    /\ session.supervisor_response = "clarification_error"
    /\ session.pending_questions = "q1"

\* C17: a turn in which the job analyzer succeeds ends after invoke_job: the
\* answer is the job summary with the offer of company research, the turn
\* finishes under the supervisor with stage collecting_job, and the decision
\* about company research is left to a later message.
C17_JobTurnEndsWithOffer ==
    (/\ pc = "END"
     /\ \E j \in JobRecords :
           Returned("from_url", j) \/ Returned("from_text", j))
    => /\ TurnOf("invoke_job")
       /\ state.job_data \in JobRecords
       /\ state.supervisor_response = "job_summary_offer_research"
       /\ state.current_agent = "supervisor"
       /\ state.session_stage = "collecting_job"

\* C18: a turn in which company research raises does not start the hand-off:
\* the Tailor is not called, the supervisor keeps the turn, company_data is
\* as before and the answer is the one offering retry or skip.
C18_FailedResearchEndsTurn ==
    (pc = "END" /\ "research_company" \in failed)
    => /\ "handoff_writer" \notin {ran[i] : i \in 1..Len(ran)}
       /\ "tailor_start" \notin calls
       /\ state.current_agent = "supervisor"
       /\ state.company_data = session.company_data
       /\ state.supervisor_response = "company_error"

\* C19: in a continue turn whose stored transcript has no system context
\* while a cv or job record is held, the transcript passed to the Tailor
\* holds the system context built from the held records before the new user
\* entry, and the user entry is its last element.
C19_ContextRebuiltBeforeUserEntry ==
    (/\ pc = "END"
     /\ "tailor_continue" \in calls
     /\ ~has_system_context(writer_messages_of(session))
     /\ (has_cv(session) \/ has_job(session)))
    => LET passed == tailor_out.passed
           n == Len(passed)
       IN  /\ n >= 2
           /\ passed[n] = [role |-> "user",
                           content |-> <<session.user_input>>]
           /\ \E i \in 1..(n - 1) :
                 /\ passed[i].role = "system"
                 /\ passed[i].content =
                        <<"context", format_data(session.cv_data),
                          format_data(session.job_data),
                          format_data(session.company_data)>>
           /\ \A i \in 1..(n - 1) : passed[i].role # "user"

C19_Witness_JobOnlyContextRebuilt ==
    /\ pc = "END"
    /\ TurnOf("continue_writer")
    /\ "tailor_continue" \in calls
    /\ ~has_cv(session)
    /\ has_job(session)
    /\ writer_messages_of(session) = <<>>

\* C20: a continue turn in which the Tailor answers stores the returned
\* transcript; the stored stage is complete when the reply holds a
\* completion phrase and is the stage from before the turn otherwise.
C20_ContinueStoresTranscriptAndStage ==
    [][(/\ pc = "END"
        /\ "tailor_continue" \in calls
        /\ tailor_out.returned)
       => /\ \A r \in WriterReplies :
                Returned("tailor_continue", r)
                => session'.session_stage =
                       IF DoneKeyword(r) THEN "complete"
                       ELSE session.session_stage
          /\ writer_messages_of(session') = tailor_out.transcript]_vars

\* C21: when the classifier raises, no node has run, send_message answers
\* with the apology, and the stored session (stage, active collaborator,
\* records, flags, conversation count, log) is as it was before the turn.
C21_ClassifierFailureChangesNothing ==
    [][(pc = "analyze_intent" /\ pc' = "idle")
       => /\ ran = <<>>
          /\ api_response'.kind = "error"
          /\ api_response'.assistant_message = "apology"
          /\ \A k \in DOMAIN before \ {"user_input"} :
                session'[k] = before[k]]_vars

\* C22: a turn in which a collaborator call timed out (raised) stores the
\* fields it held before the turn and appends exactly one entry to the log.
C22_TimeoutAppendsOneLogEntry ==
    [][(pc = "END" /\ failed # {})
       => /\ \A k \in FrameKeys : session'[k] = before[k]
          /\ Len(session'.messages) = Len(before.messages) + 1
          /\ IsPrefix(before.messages, session'.messages)]_vars

\* C23: every turn in which a collaborator call raised ends with an answer
\* that tells the user about the failure.
C23_FailureIsAcknowledged ==
    (pc = "END" /\ failed # {})
    => state.supervisor_response \in ErrorResponses

StageRank ==
    [init |-> 0, collecting_cv |-> 1, collecting_job |-> 2,
     writer_session |-> 3, complete |-> 4]

\* C25: the stored stage of a session never moves backwards in the order
\* init < collecting_cv < collecting_job < writer_session < complete, except
\* in a writer-owned turn whose message is a return trigger.
C25_StageNeverMovesBack ==
    [][(/\ session # NoSession
        /\ session' # NoSession
        /\ StageRank[session'.session_stage] < StageRank[session.session_stage])
       => /\ pc = "END"
          /\ session.current_agent = "writer"
          /\ ReturnTrigger(session.user_input)]_vars

\* the API operation a response belongs to
Op(r) ==
    IF "op" \in DOMAIN r THEN r.op
    ELSE IF r.kind = "none" THEN "none" ELSE "send_message"

\* the step is the passing of time
TickStep ==
    \/ idle' > idle
    \/ peer # NoSession /\ peer' # NoSession /\ peer'.idle > peer.idle

\* the step is a call of API operation `o` that is answered at once
ApiStep(o) ==
    /\ pc = "idle"
    /\ pc' = "idle"
    /\ ~TickStep
    /\ Op(api_response') = o

\* the fields of the state summary
Summary(info) ==
    [k \in {"session_stage", "has_cv_data", "has_job_data",
            "has_company_data", "needs_clarification", "ready_for_writer",
            "current_agent"} |-> info[k]]

\* C26: get_state leaves the stored session as it is, and a get_state that
\* follows a get_state, with no other API call between them, reports the
\* same stage, has_cv, has_job, has_company, needs_clarification,
\* ready_for_writer and active collaborator.
C26_GetStateIdempotent ==
    [][(ApiStep("get_state") /\ api_response'.kind = "state")
       => /\ session' = session
          /\ api_response.kind = "state"
             => Summary(api_response'.session_info)
                    = Summary(api_response.session_info)]_vars

C26_Witness_SecondLookAfterATurn ==
    /\ pc = "idle"
    /\ api_response.kind = "state"
    /\ api_response.session_info.needs_clarification
    /\ session # NoSession
    /\ idle = 30

\* C27: get_state right after start_session reports stage init, no cv, job
\* or company record, needs_clarification and ready_for_writer FALSE, and
\* the supervisor as active collaborator.
C27_FreshSessionSummary ==
    [][(/\ api_response = [kind |-> "started", op |-> "start_session"]
        /\ ~Expired(idle)
        /\ ApiStep("get_state"))
       => /\ api_response'.kind = "state"
          /\ Summary(api_response'.session_info) =
                 [session_stage |-> "init",
                  has_cv_data |-> FALSE,
                  has_job_data |-> FALSE,
                  has_company_data |-> FALSE,
                  needs_clarification |-> FALSE,
                  ready_for_writer |-> FALSE,
                  current_agent |-> "supervisor"]]_vars

C27_Witness_StateOfNewSession ==
    /\ api_response.kind = "state"
    /\ session # NoSession
    /\ session.conversation_count = 0

\* the session id is not served: it is not in the store or it has expired
Unserved == session = NoSession \/ idle > TTL

\* C28: send_message, get_state and delete_session on an id that was never
\* created, was deleted or has expired answer not-found, start no turn and
\* create no session.
C28_UnservedIdIsNotFound ==
    [][(pc = "idle" /\ Unserved)
       => /\ pc' = "idle"
          /\ state' = NoState
          /\ calls' = {}
          /\ (session = NoSession /\ session' # NoSession)
             => api_response' = [kind |-> "started", op |-> "start_session"]
          /\ \A o \in {"send_message", "get_state", "delete_session"} :
                ApiStep(o) => api_response'.kind = "not_found"]_vars

\* C28 as the code has it: delete_session does not look at the clock, so an
\* expired session that is still in the store is deleted with the ok answer;
\* everything else is as stated.
C28_UnservedIdIsNotFoundButDeletable ==
    [][(pc = "idle" /\ Unserved)
       => /\ pc' = "idle"
          /\ state' = NoState
          /\ calls' = {}
          /\ (session = NoSession /\ session' # NoSession)
             => api_response' = [kind |-> "started", op |-> "start_session"]
          /\ \A o \in {"send_message", "get_state"} :
                ApiStep(o) => api_response'.kind = "not_found"
          /\ ApiStep("delete_session")
             => api_response'.kind =
                    IF session = NoSession THEN "not_found" ELSE "deleted"]_vars

C28_Witness_GoneSessionAsked ==
    /\ pc = "idle"
    /\ session = NoSession
    /\ api_response = [kind |-> "not_found", op |-> "get_state"]
    /\ peer # NoSession
    /\ peer.idle > TTL

\* C29: a session idle for more than the TTL is not served by get_state or
\* send_message, which answer not-found and remove it; a session idle for
\* the TTL or less is served; cleanup removes exactly the sessions idle for
\* more than the TTL, reports how many, and leaves the others as they are.
C29_ExpiryAndSweep ==
    [][/\ (pc = "idle" /\ session # NoSession /\ idle > TTL)
          => /\ pc' = "idle"
             /\ (ApiStep("get_state") \/ ApiStep("send_message"))
                => /\ api_response'.kind = "not_found"
                   /\ session' = NoSession
       /\ (ApiStep("get_state") /\ session # NoSession /\ idle <= TTL)
          => api_response'.kind = "state"
       /\ ApiStep("cleanup_sessions")
          => /\ session' = IF session # NoSession /\ idle > TTL
                           THEN NoSession ELSE session
             /\ session' # NoSession => idle' = idle
             /\ peer' = IF peer # NoSession /\ peer.idle > TTL
                        THEN NoSession ELSE peer
             /\ api_response'.cleaned_sessions =
                    (IF session # NoSession /\ idle > TTL THEN 1 ELSE 0)
                    + (IF peer # NoSession /\ peer.idle > TTL THEN 1 ELSE 0)]_vars

C29_Witness_SweepTookOneLeftOne ==
    /\ api_response.kind = "cleanup"
    /\ api_response.cleaned_sessions = 1
    /\ api_response.remaining_sessions = 1
    /\ session # NoSession
    /\ idle = TTL

C31_ClarificationRouting ==
    [][/\ (/\ pc = "analyze_intent"
           /\ pc' # "idle"
           /\ state.current_agent = "supervisor"
           /\ state'.intent = "answer_clarification")
          => pc' = IF Truthy(state.pending_questions)
                   THEN "handle_clarification"
                   ELSE "generate_response"
       /\ (Running' /\ "merge_clarification" \in calls')
          => /\ Truthy(before.pending_questions)
             /\ state'.intent = "answer_clarification"]_vars

C31_Witness_AnswerWithoutQuestions ==
    /\ pc = "END"
    /\ ran = <<"analyze_intent", "generate_response">>
    /\ state.intent = "answer_clarification"
    /\ state.cv_data # None
    /\ ~Truthy(before.pending_questions)
    /\ "merge_clarification" \notin calls

\* the nodes of `ran` as a set
RanSet == {ran[i] : i \in 1..Len(ran)}

\* every step of a running turn is the node at `pc` running once more than
\* before: a turn begins at analyze_intent, no node runs twice, and at most
\* four nodes run
TurnRunsEachNodeOnce ==
    [][/\ (~Running /\ Running') => (pc' = EntryPoint /\ ran' = <<>>)
       /\ (Running /\ Running' /\ pc # "END")
          => /\ ran' = Append(ran, pc)
             /\ pc \notin RanSet
             /\ ran'[1] = "analyze_intent"
             /\ Len(ran') <= 4
       /\ (Running /\ ~Running' /\ pc # "END")
          => /\ pc \in {"analyze_intent", "generate_response"}
             /\ api_response'.kind = "error"]_vars

\* C32: every turn begins at analyze_intent, runs no node twice and at most
\* four nodes, and reaches END.
C32_TurnReachesEnd ==
    TurnRunsEachNodeOnce /\ (Running ~> pc = "END")

\* C32 as the code has it: every turn begins at analyze_intent, runs no
\* node twice and at most four nodes, and ends: at END, or with the failure
\* answer when the classifier or the free-text answer raised.
C32_TurnEnds ==
    TurnRunsEachNodeOnce /\ (Running ~> ~Running)

C32_Witness_FourNodesThenEnd ==
    /\ pc = "END"
    /\ ran = <<"analyze_intent", "invoke_job", "handle_company_decision",
               "handoff_writer">>

\* C33: handle_missing_data changes none of stage, active collaborator, the
\* three records, pending_questions, needs_clarification and
\* ready_for_writer, in the graph state and, when the turn is stored, in the
\* session; its response asks for both records, for the CV only or for the
\* job posting only according to which of cv_data and job_data is None.
C33_MissingDataOnlyAnswers ==
    [][/\ (pc = "handle_missing_data" /\ Running')
          => /\ \A k \in FrameKeys : state'[k] = state[k]
             /\ state'.supervisor_response =
                    IF state.cv_data = None /\ state.job_data = None
                    THEN "need_cv_and_job_start_with_cv"
                    ELSE IF state.cv_data = None THEN "need_cv"
                    ELSE "need_job"
             /\ calls' = calls
       /\ (/\ pc = "END"
           /\ ran = <<"analyze_intent", "handle_missing_data">>
           /\ session' # NoSession)
          => /\ \A k \in FrameKeys : session'[k] = before[k]
             /\ api_response'.assistant_message = state.supervisor_response]_vars

C33_Witness_AskedForJobOnly ==
    /\ pc = "END"
    /\ ran = <<"analyze_intent", "handle_missing_data">>
    /\ state.supervisor_response = "need_job"
    /\ state.cv_data # None
    /\ state.session_stage # "init"

\* C34: a turn answered by generate_response for a greeting, a help request
\* or a general question stores stage, active collaborator, the three
\* records, pending_questions, needs_clarification and ready_for_writer as
\* they were before the turn.
C34_CannedResponseChangesNoData ==
    [][(/\ pc = "END"
        /\ ran = <<"analyze_intent", "generate_response">>
        /\ state.intent \in {"greeting", "help", "general_question"}
        /\ session' # NoSession)
       => \A k \in FrameKeys : session'[k] = before[k]]_vars

\* thread t is at the step that finishes its call of `op`
MemFinishes(t, op) ==
    /\ mem.th[t].pc = "found"
    /\ mem.th[t].call.op = op
    /\ mem'.th[t].pc = "idle"

\* C35: MemorySessionStorage.update_session on a stored session returns
\* True, keeps the value of every key for which None comes in, keeps
\* session_id and created_at, writes every other incoming value, leaves the
\* keys that do not come in as they are, and appends an incoming messages
\* list to the stored list; on an id the store does not hold it returns
\* False and stores nothing.
C35_StorageUpdateMerges ==
    [][\A t \in Threads :
         MemFinishes(t, "update_session")
         => LET u == mem.th[t].call.updates
                r == mem.th[t].ref
            IN  IF r = NoRef
                THEN /\ mem'.ret = "False"
                     /\ mem'.sessions = mem.sessions
                     /\ mem'.dicts = mem.dicts
                     /\ mem'.lists = mem.lists
                ELSE LET old == mem.dicts[r]
                         new == mem'.dicts[r]
                         guarded == {k \in DOMAIN u \ {"messages"} :
                                        u[k] = None /\ k \in DOMAIN old}
                         protected == {"session_id", "created_at"}
                     IN  /\ mem'.ret = "True"
                         /\ mem'.sessions = r
                         /\ \A k \in DOMAIN old :
                               k \in guarded \cup protected
                                     \cup (DOMAIN old \ DOMAIN u)
                                     \cup {"messages"}
                               => new[k] = old[k]
                         /\ \A k \in DOMAIN u \ ({"messages"} \cup guarded
                                                  \cup protected) :
                               k \in DOMAIN new /\ new[k] = u[k]
                         /\ mem'.lists[r] =
                                IF "messages" \in DOMAIN u
                                THEN mem.lists[r] \o u.messages
                                ELSE mem.lists[r]]_vars

C35_Witness_NoneOverStoredCv ==
    /\ mem.sessions # NoRef
    /\ mem.ret = "True"
    /\ mem.dicts[mem.sessions].cv_data = "cv1"
    /\ mem.lists[mem.sessions] =
           <<[role |-> "user", content |-> "hi"],
             [role |-> "assistant", content |-> "plan"]>>

\* the threads that are inside `with self._lock`
Inside == {t \in Threads : mem.th[t].pc \in {"locked", "found"}}

\* C36: the operations of MemorySessionStorage exclude one another: at most
\* one thread is inside the lock, the session a thread looked up is still
\* the stored one when the thread finishes, and no operation ends in a
\* KeyError; add_message and update_session that return True have appended
\* their messages to the stored list, so that the stored list is as long as
\* the number of messages added; and only create_session brings a session
\* into the store, as a new one with an empty list.
C36_StorageOperationsAtomic ==
    [][/\ Cardinality(Inside) <= 1
       /\ mem.sessions # NoRef
          => Len(mem.lists[mem.sessions]) = mem.added
       /\ \A t \in Threads :
             (mem.th[t].pc = "found" /\ mem'.th[t].pc = "idle")
             => LET call == mem.th[t].call
                    r == mem.th[t].ref
                IN  /\ mem'.ret # "KeyError"
                    /\ r # NoRef => r = mem.sessions
                    /\ (call.op # "cleanup_expired_sessions" /\ r = NoRef)
                       => mem.sessions = NoRef
                    /\ (Appends(call) > 0 /\ mem'.ret = "True")
                       => /\ mem'.sessions = mem.sessions
                          /\ Len(mem'.lists[r])
                                 = Len(mem.lists[r]) + Appends(call)
                          /\ SubSeq(mem'.lists[r], 1, Len(mem.lists[r]))
                                 = mem.lists[r]
                    /\ call.op \in {"delete_session",
                                    "cleanup_expired_sessions"}
                       => mem'.sessions = NoRef \/ mem'.ret \in {"0"}
                    /\ (mem.sessions = NoRef /\ mem'.sessions # NoRef)
                       => /\ call.op = "create_session"
                          /\ mem'.lists[mem'.sessions] = <<>>
                          /\ mem'.sessions = Len(mem.dicts) + 1]_vars

C36_Witness_DeleteWaitsForAddMessage ==
    /\ mem.th[1].pc = "found"
    /\ mem.th[1].call.op = "add_message"
    /\ mem.th[2].pc = "waiting"
    /\ mem.th[2].call.op = "delete_session"
    /\ mem.sessions # NoRef
    /\ mem.added = 1
    /\ mem.idle[mem.sessions] = MemTickMinutes

\* what the caller sees in the dict get_session returned: its keys, with
\* the list its `messages` key refers to
SnapshotView(m) ==
    [dict |-> m.snap.dict, messages |-> m.lists[m.snap.messages]]

\* C40: the dict get_session returned is the same, its messages included,
\* after every later operation on the store, until get_session is called
\* again.
C40_SnapshotIsolated ==
    [][(mem.snap.taken /\ mem'.snap = mem.snap)
       => SnapshotView(mem') = SnapshotView(mem)]_vars

\* the entries the nodes of the running turn have produced: the `messages`
\* channel without what the graph was started on
TurnEntries ==
    SubSeq(state.messages, Len(checkpoint) + Len(session.messages) + 1,
           Len(state.messages))

\* C37: the write that ends a send_message turn leaves the stored log as
\* the log before the turn followed by the entries the turn produced.
C37_TurnAddsOnlyItsEntries ==
    [][(pc = "END" /\ session' # NoSession)
       => session'.messages = session.messages \o TurnEntries]_vars

\* the system-context entries of a transcript
ContextEntries(msgs) ==
    {i \in 1..Len(msgs) :
        msgs[i].role = "system" /\ msgs[i].content[1] = "context"}

\* C38: the transcript a continue turn passes to the Tailor holds exactly
\* one system-context entry.
C38_OneSystemContext ==
    (pc = "END" /\ "tailor_continue" \in calls)
    => Cardinality(ContextEntries(tailor_out.passed)) = 1

\* C39: in every stored session, the writer is the active collaborator only
\* in stage writer_session or complete, and in stage writer_session the
\* writer is the active collaborator.
C39_StageAndOwnerAgree ==
    (pc = "idle" /\ Stored)
    => /\ session.current_agent = "writer"
          => session.session_stage \in {"writer_session", "complete"}
       /\ session.session_stage = "writer_session"
          => session.current_agent = "writer"

====
